---- MODULE Spec2Model ----
(***************************************************************************)
(* The schema, triggers and row-level security policies of                 *)
(* supabase/migrations/20250930032716_ef6eccd5-....sql as a state machine. *)
(* The state is the content of auth.users and of the five public tables;   *)
(* every action is one statement issued to the database, executed          *)
(* atomically together with the triggers it fires.  Columns that no        *)
(* constraint, policy or trigger reads (department, phone, equipment,      *)
(* location, remarks, semester, ...) are left out of the rows.             *)
(* The module also follows one instance of src/pages/Dashboard.tsx, which  *)
(* reads that database: its mount effect, its auth listener and sign-out.  *)
(***************************************************************************)
EXTENDS Integers, FiniteSets, Sequences, TLC

VARIABLES
    users,       \* auth.users: set of [id, email, name]  (name = raw_user_meta_data->>'name')
    signedUp,    \* ghost: ids of the identities inserted while on_auth_user_created is installed
    profiles,    \* public.profiles
    classrooms,  \* public.classrooms
    courses,     \* public.courses
    timetable,   \* public.timetable
    feedback,    \* public.feedback
    now,         \* NOW(): the time of the current transaction
    last,        \* the last statement issued and what the database answered
    dash         \* pages/Dashboard.tsx: one instance of the component and the auth client

vars == <<users, signedUp, profiles, classrooms, courses, timetable, feedback, now, last, dash>>

-----------------------------------------------------------------------------
(* Bounds of the model *)

\* the clock stops at MaxClock
MaxClock == 1
\* at most MaxNew rows beyond the seeded ones are inserted in a table
MaxNew == 1

-----------------------------------------------------------------------------
(* Values *)

\* SQL NULL in a text or uuid position
NULL == "NULL"
\* SQL NULL in an integer or time position (every integer the model uses is >= 0)
NullInt == 0 - 1
\* a column left out of an INSERT, so that its DEFAULT applies
DEFAULT == "DEFAULT"
\* the same in an integer or timestamp position
DefaultInt == 0 - 2

\* the identities auth can hand out, and the unauthenticated requester
Identities == {"u1", "u2"}
Anon == "anon"
Actors == Identities \cup {Anon}

user_role == {"student", "faculty", "admin"}

\* auth.uid(): the requester's identity, NULL without a session
AuthUid(actor) == IF actor = Anon THEN NULL ELSE actor

\* a = b in SQL is true only when neither side is NULL
SqlEq(a, b) == a # NULL /\ b # NULL /\ a = b

\* COALESCE(a, b)
COALESCE(a, b) == IF a # NULL THEN a ELSE b

Ids(rows) == {r.id : r \in rows}

\* gen_random_uuid(): an id no row of the table carries (the least one, by symmetry)
NewId(rows) == CHOOSE n \in 1..(Cardinality(rows) + 1) : n \notin Ids(rows)

\* the statement just answered
Req(table, op, actor, result, uid, id, rows) ==
    [table |-> table, op |-> op, actor |-> actor, result |-> result,
     uid |-> uid, id |-> id, rows |-> rows]

-----------------------------------------------------------------------------
(* public.profiles: constraints and policies *)

ProfileRowValidNoUnique(row, others, usrs) ==
    /\ row.user_id # NULL
    /\ row.name # NULL
    /\ row.email # NULL
    /\ row.role \in user_role
    /\ row.user_id \in {u.id : u \in usrs}
\* NOT NULL columns, the user_role enum, REFERENCES auth.users(id), UNIQUE(user_id)
ProfileRowValid(row, others, usrs) ==
    /\ row.user_id # NULL
    /\ row.name # NULL
    /\ row.email # NULL
    /\ row.role \in user_role
    /\ row.user_id \in {u.id : u \in usrs}
    /\ \A o \in others : o.user_id # row.user_id

\* "Users can view all profiles"
ProfilesSelectUsing(uid, row) == TRUE

ProfilesUpdateAnyone(uid, row) == TRUE
\* "Users can update their own profile" (no WITH CHECK: USING also checks the new row)
ProfilesUpdateUsing(uid, row) == SqlEq(uid, row.user_id)

\* "Users can insert their own profile"
ProfilesInsertCheck(uid, row) == SqlEq(uid, row.user_id)

\* row level security is enabled and no policy is FOR DELETE: nothing is deletable
ProfilesDeleteUsing(uid, row) == FALSE

-----------------------------------------------------------------------------
(* Triggers *)

handle_new_user_email_first(new_row) ==
    [user_id |-> new_row.id, name |-> COALESCE(new_row.email, new_row.name),
     email |-> new_row.email, role |-> "student"]
\* the row handle_new_user() inserts for the new auth.users row
handle_new_user(new_row) ==
    [user_id |-> new_row.id, name |-> COALESCE(new_row.name, new_row.email),
     email |-> new_row.email, role |-> "student"]

TriggerFailureKeeps(before, after) == after
\* on_auth_user_created runs inside the INSERT on auth.users: when it raises,
\* the statement is undone
TriggerFailure(before, after) == before

\* updated_at TIMESTAMP WITH TIME ZONE DEFAULT NOW(): the value an INSERT stores
UpdatedAtDefault(updated_at) == IF updated_at = DefaultInt THEN now ELSE updated_at

\* BEFORE UPDATE ... FOR EACH ROW: new_row.updated_at = NOW()
update_updated_at_column(new_row) == [new_row EXCEPT !.updated_at = now]

-----------------------------------------------------------------------------
(* Statements on auth.users *)

SignupEmails == {NULL, "a@x"}
SignupNames == {NULL, "Lee"}

\* INSERT INTO auth.users, with the AFTER INSERT trigger on_auth_user_created
CreateIdentity(u, email, name) ==
    /\ u \notin {x.id : x \in users}
    /\ LET new_row == [id |-> u, email |-> email, name |-> name]
           users1 == users \cup {new_row}
           prow == [id |-> NewId(profiles), updated_at |-> now] @@ handle_new_user(new_row)
       IN IF ProfileRowValid(prow, profiles, users1)
          THEN /\ users' = users1
               /\ profiles' = profiles \cup {prow}
               /\ signedUp' = signedUp \cup {u}
               /\ last' = Req("auth.users", "insert", Anon, "ok", u, prow.id, {})
          ELSE /\ users' = TriggerFailure(users, users1)
               /\ UNCHANGED <<profiles, signedUp>>
               /\ last' = Req("auth.users", "insert", Anon, "constraint", u, 0, {})
    /\ UNCHANGED <<classrooms, courses, timetable, feedback, now, dash>>

\* DELETE FROM auth.users WHERE id = u, with the ON DELETE CASCADE references
DeleteIdentity(u) ==
    /\ u \in {x.id : x \in users}
    /\ LET gone == {p \in profiles : p.user_id = u}
       IN /\ users' = {x \in users : x.id # u}
          /\ profiles' = profiles \ gone
          /\ timetable' = {t \in timetable : t.faculty_id \notin Ids(gone)}
          /\ feedback' = {f \in feedback : f.user_id # u}
          /\ signedUp' = signedUp \ {u}
          /\ last' = Req("auth.users", "delete", Anon, "ok", u, 0, {})
    /\ UNCHANGED <<classrooms, courses, now, dash>>

-----------------------------------------------------------------------------
(* Statements on public.profiles *)

\* a requester holds a session of an existing identity, or none
Requesters == {x.id : x \in users} \cup {Anon}

ProfileNames == {NULL, "Kim"}
ProfileEmail == "k@x"

\* SELECT * FROM profiles
ProfileSelect(actor) ==
    /\ actor \in Requesters
    /\ last' = Req("profiles", "select", actor, "ok", NULL, 0,
                   {p.id : p \in {q \in profiles : ProfilesSelectUsing(AuthUid(actor), q)}})
    /\ UNCHANGED <<users, signedUp, profiles, classrooms, courses, timetable, feedback, now, dash>>

\* INSERT INTO profiles (user_id, name, email, role, updated_at)
\*   VALUES (uid, name, ProfileEmail, role, updated_at)
ProfileInsert(actor, uid, name, role, updated_at) ==
    /\ actor \in Requesters
    /\ LET row == [id |-> NewId(profiles), user_id |-> uid, name |-> name,
                   email |-> ProfileEmail, role |-> role,
                   updated_at |-> UpdatedAtDefault(updated_at)]
           result == IF ~ProfilesInsertCheck(AuthUid(actor), row) THEN "rls"
                     ELSE IF ~ProfileRowValid(row, profiles, users) THEN "constraint"
                     ELSE "ok"
       IN /\ profiles' = IF result = "ok" THEN profiles \cup {row} ELSE profiles
          /\ last' = Req("profiles", "insert", actor, result, uid,
                         IF result = "ok" THEN row.id ELSE 0, {})
    /\ UNCHANGED <<users, signedUp, classrooms, courses, timetable, feedback, now, dash>>

\* UPDATE profiles SET <col> = val WHERE id = p.id
ProfileUpdate(actor, p, col, val) ==
    /\ actor \in Requesters
    /\ p \in profiles
    /\ LET upd == update_updated_at_column([p EXCEPT ![col] = val])
           result == IF ~ProfilesUpdateUsing(AuthUid(actor), p) THEN "rls"
                     ELSE IF ~ProfilesUpdateUsing(AuthUid(actor), upd) THEN "rls"
                     ELSE IF ~ProfileRowValid(upd, profiles \ {p}, users) THEN "constraint"
                     ELSE "ok"
       IN /\ profiles' = IF result = "ok" THEN (profiles \ {p}) \cup {upd} ELSE profiles
          /\ last' = Req("profiles", "update", actor, result, p.user_id, p.id, {})
    /\ UNCHANGED <<users, signedUp, classrooms, courses, timetable, feedback, now, dash>>

\* DELETE FROM profiles WHERE id = p.id
ProfileDelete(actor, p) ==
    /\ actor \in Requesters
    /\ p \in profiles
    /\ LET result == IF ~ProfilesDeleteUsing(AuthUid(actor), p) THEN "rls" ELSE "ok"
           gone == IF result = "ok" THEN {p} ELSE {}
       IN /\ profiles' = profiles \ gone
          /\ timetable' = {t \in timetable : t.faculty_id \notin Ids(gone)}
          /\ last' = Req("profiles", "delete", actor, result, p.user_id, p.id, {})
    /\ UNCHANGED <<users, signedUp, classrooms, courses, feedback, now, dash>>

-----------------------------------------------------------------------------
(* Seed data *)

\* the rows the migration inserts into public.classrooms
SeedClassrooms ==
    { [id |-> 1, room_name |-> "Room A101", capacity |-> 50, updated_at |-> 0],
      [id |-> 2, room_name |-> "Room B201", capacity |-> 30, updated_at |-> 0],
      [id |-> 3, room_name |-> "Lab C301", capacity |-> 25, updated_at |-> 0],
      [id |-> 4, room_name |-> "Auditorium D001", capacity |-> 200, updated_at |-> 0],
      [id |-> 5, room_name |-> "Room A102", capacity |-> 40, updated_at |-> 0] }

\* the rows the migration inserts into public.courses
SeedCourses ==
    { [id |-> 1, course_code |-> "CS101", credits |-> 3, updated_at |-> 0],
      [id |-> 2, course_code |-> "MATH201", credits |-> 4, updated_at |-> 0],
      [id |-> 3, course_code |-> "ENG101", credits |-> 3, updated_at |-> 0],
      [id |-> 4, course_code |-> "PHYS201", credits |-> 4, updated_at |-> 0],
      [id |-> 5, course_code |-> "BIO101", credits |-> 3, updated_at |-> 0] }

-----------------------------------------------------------------------------
(* public.classrooms *)

ClassroomRowValidNoCheck(row, others) ==
    /\ row.room_name # NULL
    /\ row.capacity # NullInt
    /\ \A o \in others : o.room_name # row.room_name
\* room_name NOT NULL UNIQUE, capacity NOT NULL CHECK (capacity > 0)
ClassroomRowValid(row, others) ==
    /\ row.room_name # NULL
    /\ row.capacity # NullInt
    /\ row.capacity > 0
    /\ \A o \in others : o.room_name # row.room_name

\* "Anyone can view classrooms"
ClassroomsSelectUsing(uid) == TRUE

AdminsOrFacultyCanManageClassrooms(uid) ==
    \E p \in profiles : SqlEq(p.user_id, uid) /\ p.role \in {"admin", "faculty"}
\* "Admins can manage classrooms": FOR ALL, so USING is also the check of a new row
AdminsCanManageClassrooms(uid) ==
    \E p \in profiles : SqlEq(p.user_id, uid) /\ p.role = "admin"

\* SELECT * FROM classrooms
ClassroomSelect(actor) ==
    /\ actor \in Requesters
    /\ last' = Req("classrooms", "select", actor, "ok", NULL, 0,
                   {r.id : r \in {q \in classrooms :
                       ClassroomsSelectUsing(AuthUid(actor))
                           \/ AdminsCanManageClassrooms(AuthUid(actor))}})
    /\ UNCHANGED <<users, signedUp, profiles, classrooms, courses, timetable, feedback, now, dash>>

\* INSERT INTO classrooms (room_name, capacity, updated_at)
\*   VALUES (name, capacity, updated_at)
ClassroomInsert(actor, name, capacity, updated_at) ==
    /\ actor \in Requesters
    /\ NewId(classrooms) <= Cardinality(SeedClassrooms) + MaxNew
    /\ LET row == [id |-> NewId(classrooms), room_name |-> name, capacity |-> capacity,
                   updated_at |-> UpdatedAtDefault(updated_at)]
           result == IF ~AdminsCanManageClassrooms(AuthUid(actor)) THEN "rls"
                     ELSE IF ~ClassroomRowValid(row, classrooms) THEN "constraint"
                     ELSE "ok"
       IN /\ classrooms' = IF result = "ok" THEN classrooms \cup {row} ELSE classrooms
          /\ last' = Req("classrooms", "insert", actor, result, NULL,
                         IF result = "ok" THEN row.id ELSE 0, {})
    /\ UNCHANGED <<users, signedUp, profiles, courses, timetable, feedback, now, dash>>

\* UPDATE classrooms SET <col> = val WHERE id = r.id
ClassroomUpdate(actor, r, col, val) ==
    /\ actor \in Requesters
    /\ r \in classrooms
    /\ LET upd == update_updated_at_column([r EXCEPT ![col] = val])
           result == IF ~AdminsCanManageClassrooms(AuthUid(actor)) THEN "rls"
                     ELSE IF ~ClassroomRowValid(upd, classrooms \ {r}) THEN "constraint"
                     ELSE "ok"
       IN /\ classrooms' = IF result = "ok" THEN (classrooms \ {r}) \cup {upd}
                           ELSE classrooms
          /\ last' = Req("classrooms", "update", actor, result, NULL, r.id, {})
    /\ UNCHANGED <<users, signedUp, profiles, courses, timetable, feedback, now, dash>>

\* DELETE FROM classrooms WHERE id = r.id; timetable.room_id is ON DELETE CASCADE
ClassroomDelete(actor, r) ==
    /\ actor \in Requesters
    /\ r \in classrooms
    /\ LET result == IF ~AdminsCanManageClassrooms(AuthUid(actor)) THEN "rls" ELSE "ok"
       IN /\ classrooms' = IF result = "ok" THEN classrooms \ {r} ELSE classrooms
          /\ timetable' = IF result = "ok"
                          THEN {t \in timetable : t.room_id # r.id} ELSE timetable
          /\ last' = Req("classrooms", "delete", actor, result, NULL, r.id, {})
    /\ UNCHANGED <<users, signedUp, profiles, courses, feedback, now, dash>>

-----------------------------------------------------------------------------
(* public.courses *)

CourseRowValidNoUnique(row, others) ==
    /\ row.course_code # NULL
    /\ (row.credits = NullInt \/ row.credits > 0)
\* course_code NOT NULL UNIQUE, credits CHECK (credits > 0): a CHECK passes on NULL
CourseRowValid(row, others) ==
    /\ row.course_code # NULL
    /\ (row.credits = NullInt \/ row.credits > 0)
    /\ \A o \in others : o.course_code # row.course_code

\* credits INTEGER DEFAULT 3
CreditsDefault == 3

\* "Anyone can view courses"
CoursesSelectUsing(uid) == TRUE

\* the role as it was when the identity signed up
AdminsCanManageCoursesAtSignup(uid) ==
    \E p \in profiles : SqlEq(p.user_id, uid) /\ p.role = "admin" /\ uid \notin signedUp
\* "Admins can manage courses"
AdminsCanManageCourses(uid) ==
    \E p \in profiles : SqlEq(p.user_id, uid) /\ p.role = "admin"

\* SELECT * FROM courses
CourseSelect(actor) ==
    /\ actor \in Requesters
    /\ last' = Req("courses", "select", actor, "ok", NULL, 0,
                   {r.id : r \in {q \in courses :
                       CoursesSelectUsing(AuthUid(actor))
                           \/ AdminsCanManageCourses(AuthUid(actor))}})
    /\ UNCHANGED <<users, signedUp, profiles, classrooms, courses, timetable, feedback, now, dash>>

\* INSERT INTO courses (course_code, credits, updated_at)
\*   VALUES (code, credits, updated_at);
\* credits = DefaultInt stands for an INSERT that does not name the column
CourseInsert(actor, code, credits, updated_at) ==
    /\ actor \in Requesters
    /\ NewId(courses) <= Cardinality(SeedCourses) + MaxNew
    /\ LET row == [id |-> NewId(courses), course_code |-> code,
                   credits |-> IF credits = DefaultInt THEN CreditsDefault ELSE credits,
                   updated_at |-> UpdatedAtDefault(updated_at)]
           result == IF ~AdminsCanManageCourses(AuthUid(actor)) THEN "rls"
                     ELSE IF ~CourseRowValid(row, courses) THEN "constraint"
                     ELSE "ok"
       IN /\ courses' = IF result = "ok" THEN courses \cup {row} ELSE courses
          /\ last' = Req("courses", "insert", actor, result, NULL,
                         IF result = "ok" THEN row.id ELSE 0, {})
    /\ UNCHANGED <<users, signedUp, profiles, classrooms, timetable, feedback, now, dash>>

\* UPDATE courses SET <col> = val WHERE id = r.id
CourseUpdate(actor, r, col, val) ==
    /\ actor \in Requesters
    /\ r \in courses
    /\ LET upd == update_updated_at_column([r EXCEPT ![col] = val])
           result == IF ~AdminsCanManageCourses(AuthUid(actor)) THEN "rls"
                     ELSE IF ~CourseRowValid(upd, courses \ {r}) THEN "constraint"
                     ELSE "ok"
       IN /\ courses' = IF result = "ok" THEN (courses \ {r}) \cup {upd} ELSE courses
          /\ last' = Req("courses", "update", actor, result, NULL, r.id, {})
    /\ UNCHANGED <<users, signedUp, profiles, classrooms, timetable, feedback, now, dash>>

\* DELETE FROM courses WHERE id = r.id; timetable.course_id is ON DELETE CASCADE
CourseDelete(actor, r) ==
    /\ actor \in Requesters
    /\ r \in courses
    /\ LET result == IF ~AdminsCanManageCourses(AuthUid(actor)) THEN "rls" ELSE "ok"
       IN /\ courses' = IF result = "ok" THEN courses \ {r} ELSE courses
          /\ timetable' = IF result = "ok"
                          THEN {t \in timetable : t.course_id # r.id} ELSE timetable
          /\ last' = Req("courses", "delete", actor, result, NULL, r.id, {})
    /\ UNCHANGED <<users, signedUp, profiles, classrooms, feedback, now, dash>>

-----------------------------------------------------------------------------
(* public.timetable *)

DaysOfWeek ==
    {"Monday", "Tuesday", "Wednesday", "Thursday", "Friday", "Saturday", "Sunday"}

valid_time_range_or_equal(row) == row.end_time >= row.start_time
\* CONSTRAINT valid_time_range CHECK (end_time > start_time)
valid_time_range(row) == row.end_time > row.start_time

TimetableRowValidNoRoomFk(row) ==
    /\ row.course_id \in Ids(courses)
    /\ row.faculty_id \in Ids(profiles)
    /\ row.day_of_week \in DaysOfWeek
    /\ row.start_time # NullInt
    /\ row.end_time # NullInt
    /\ valid_time_range(row)
\* the NOT NULL columns, the three REFERENCES and the two CHECK constraints
TimetableRowValid(row) ==
    /\ row.course_id \in Ids(courses)
    /\ row.faculty_id \in Ids(profiles)
    /\ row.room_id \in Ids(classrooms)
    /\ row.day_of_week \in DaysOfWeek
    /\ row.start_time # NullInt
    /\ row.end_time # NullInt
    /\ valid_time_range(row)

\* "Anyone can view timetable"
TimetableSelectUsing(uid) == TRUE

\* "Admins and faculty can manage timetable"
AdminsAndFacultyCanManageTimetable(uid) ==
    \E p \in profiles : SqlEq(p.user_id, uid) /\ p.role \in {"admin", "faculty"}

\* SELECT * FROM timetable
TimetableSelect(actor) ==
    /\ actor \in Requesters
    /\ last' = Req("timetable", "select", actor, "ok", NULL, 0,
                   {r.id : r \in {q \in timetable :
                       TimetableSelectUsing(AuthUid(actor))
                           \/ AdminsAndFacultyCanManageTimetable(AuthUid(actor))}})
    /\ UNCHANGED <<users, signedUp, profiles, classrooms, courses, timetable, feedback, now, dash>>

\* INSERT INTO timetable (course_id, faculty_id, room_id, day_of_week, start_time, end_time,
\*   updated_at)
TimetableInsert(actor, course_id, faculty_id, room_id, day, start_time, end_time, updated_at) ==
    /\ actor \in Requesters
    /\ NewId(timetable) <= MaxNew
    /\ LET row == [id |-> NewId(timetable), course_id |-> course_id,
                   faculty_id |-> faculty_id, room_id |-> room_id, day_of_week |-> day,
                   start_time |-> start_time, end_time |-> end_time,
                   updated_at |-> UpdatedAtDefault(updated_at)]
           result == IF ~AdminsAndFacultyCanManageTimetable(AuthUid(actor)) THEN "rls"
                     ELSE IF ~TimetableRowValid(row) THEN "constraint"
                     ELSE "ok"
       IN /\ timetable' = IF result = "ok" THEN timetable \cup {row} ELSE timetable
          /\ last' = Req("timetable", "insert", actor, result, NULL,
                         IF result = "ok" THEN row.id ELSE 0, {})
    /\ UNCHANGED <<users, signedUp, profiles, classrooms, courses, feedback, now, dash>>

\* UPDATE timetable SET <col> = val WHERE id = t.id
TimetableUpdate(actor, t, col, val) ==
    /\ actor \in Requesters
    /\ t \in timetable
    /\ LET upd == update_updated_at_column([t EXCEPT ![col] = val])
           result == IF ~AdminsAndFacultyCanManageTimetable(AuthUid(actor)) THEN "rls"
                     ELSE IF ~TimetableRowValid(upd) THEN "constraint"
                     ELSE "ok"
       IN /\ timetable' = IF result = "ok" THEN (timetable \ {t}) \cup {upd} ELSE timetable
          /\ last' = Req("timetable", "update", actor, result, NULL, t.id, {})
    /\ UNCHANGED <<users, signedUp, profiles, classrooms, courses, feedback, now, dash>>

\* DELETE FROM timetable WHERE id = t.id
TimetableDelete(actor, t) ==
    /\ actor \in Requesters
    /\ t \in timetable
    /\ LET result == IF ~AdminsAndFacultyCanManageTimetable(AuthUid(actor)) THEN "rls"
                     ELSE "ok"
       IN /\ timetable' = IF result = "ok" THEN timetable \ {t} ELSE timetable
          /\ last' = Req("timetable", "delete", actor, result, NULL, t.id, {})
    /\ UNCHANGED <<users, signedUp, profiles, classrooms, courses, feedback, now, dash>>

-----------------------------------------------------------------------------
(* public.feedback *)

FeedbackStatuses == {"pending", "reviewed", "resolved"}

\* status TEXT DEFAULT 'pending'
StatusDefault == "pending"

\* user_id NOT NULL REFERENCES auth.users(id), message NOT NULL,
\* CHECK (status IN (...)): a CHECK passes on NULL
FeedbackRowValid(row) ==
    /\ row.user_id # NULL
    /\ row.user_id \in {u.id : u \in users}
    /\ row.message # NULL
    /\ (row.status = NULL \/ row.status \in FeedbackStatuses)

\* "Users can view their own feedback"
FeedbackSelectOwn(uid, row) == SqlEq(uid, row.user_id)

AnyProfileCanViewAllFeedback(uid) ==
    \E p \in profiles : SqlEq(p.user_id, uid)
\* "Admins can view all feedback"
AdminsCanViewAllFeedback(uid) ==
    \E p \in profiles : SqlEq(p.user_id, uid) /\ p.role = "admin"

FeedbackInsertAnyone(uid, row) == TRUE
\* "Users can create feedback"
FeedbackInsertCheck(uid, row) == SqlEq(uid, row.user_id)

\* row level security is enabled and no policy is FOR UPDATE: no row is updatable
FeedbackUpdateUsing(uid, row) == FALSE

\* row level security is enabled and no policy is FOR DELETE: no row is deletable
FeedbackDeleteUsing(uid, row) == FALSE

\* the rows a SELECT of the requester returns: the permissive policies are OR'd
FeedbackVisible(uid) ==
    {f \in feedback : FeedbackSelectOwn(uid, f) \/ AdminsCanViewAllFeedback(uid)}

\* SELECT * FROM feedback
FeedbackSelect(actor) ==
    /\ actor \in Requesters
    /\ last' = Req("feedback", "select", actor, "ok", NULL, 0,
                   Ids(FeedbackVisible(AuthUid(actor))))
    /\ UNCHANGED <<users, signedUp, profiles, classrooms, courses, timetable, feedback, now, dash>>

\* INSERT INTO feedback (user_id, message, status, updated_at)
\*   VALUES (uid, message, status, updated_at);
\* status = DEFAULT stands for an INSERT that does not name the column
FeedbackInsert(actor, uid, message, status, updated_at) ==
    /\ actor \in Requesters
    /\ NewId(feedback) <= MaxNew
    /\ LET row == [id |-> NewId(feedback), user_id |-> uid, message |-> message,
                   status |-> IF status = DEFAULT THEN StatusDefault ELSE status,
                   updated_at |-> UpdatedAtDefault(updated_at)]
           result == IF ~FeedbackInsertCheck(AuthUid(actor), row) THEN "rls"
                     ELSE IF ~FeedbackRowValid(row) THEN "constraint"
                     ELSE "ok"
       IN /\ feedback' = IF result = "ok" THEN feedback \cup {row} ELSE feedback
          /\ last' = Req("feedback", "insert", actor, result, uid,
                         IF result = "ok" THEN row.id ELSE 0, {})
    /\ UNCHANGED <<users, signedUp, profiles, classrooms, courses, timetable, now, dash>>

\* UPDATE feedback SET <col> = val WHERE id = f.id
FeedbackUpdate(actor, f, col, val) ==
    /\ actor \in Requesters
    /\ f \in feedback
    /\ LET upd == update_updated_at_column([f EXCEPT ![col] = val])
           result == IF ~FeedbackUpdateUsing(AuthUid(actor), f) THEN "rls"
                     ELSE IF ~FeedbackUpdateUsing(AuthUid(actor), upd) THEN "rls"
                     ELSE IF ~FeedbackRowValid(upd) THEN "constraint"
                     ELSE "ok"
       IN /\ feedback' = IF result = "ok" THEN (feedback \ {f}) \cup {upd} ELSE feedback
          /\ last' = Req("feedback", "update", actor, result, f.user_id, f.id, {})
    /\ UNCHANGED <<users, signedUp, profiles, classrooms, courses, timetable, now, dash>>

\* DELETE FROM feedback WHERE id = f.id
FeedbackDelete(actor, f) ==
    /\ actor \in Requesters
    /\ f \in feedback
    /\ LET result == IF ~FeedbackDeleteUsing(AuthUid(actor), f) THEN "rls" ELSE "ok"
       IN /\ feedback' = IF result = "ok" THEN feedback \ {f} ELSE feedback
          /\ last' = Req("feedback", "delete", actor, result, f.user_id, f.id, {})
    /\ UNCHANGED <<users, signedUp, profiles, classrooms, courses, timetable, now, dash>>

\* time passes between two transactions
Tick ==
    /\ now < MaxClock
    /\ now' = now + 1
    /\ last' = Req("none", "none", Anon, "ok", NULL, 0, {})
    /\ UNCHANGED <<users, signedUp, profiles, classrooms, courses, timetable, feedback, dash>>

-----------------------------------------------------------------------------
(* src/pages/Dashboard.tsx *)

\* the values the component starts with (useState) before its effect has run:
\* user null, profile null, loading true, timetable []; no navigate call yet.
\* session is the session the auth client holds, pc the position of getUser,
\* so the position of handleSignOut, queries the tables queried so far,
\* sets the state setters called so far, navs the navigate calls of the last
\* step, step/event/cbSession the handler that ran last and what it was given.
DashInit ==
    [session |-> NULL, mounted |-> FALSE, subscribed |-> FALSE, pc |-> "idle",
     so |-> "idle", gotSession |-> NULL, user |-> NULL, profile |-> 0,
     loading |-> TRUE, timetable |-> {}, queries |-> {}, sets |-> {},
     toast |-> NULL, location |-> "/dashboard", navs |-> <<>>,
     step |-> "none", event |-> NULL, cbSession |-> NULL]

Database == <<users, signedUp, profiles, classrooms, courses, timetable, feedback, now, last>>

\* what every handler records about itself
Ran(d, step, navs) ==
    [d EXCEPT !.step = step, !.navs = navs, !.event = NULL, !.cbSession = NULL,
              !.location = IF navs = <<>> THEN d.location ELSE navs[Len(navs)]]

\* a setState call: React drops it once the component is unmounted
SetState(d, field, val) ==
    IF d.mounted THEN [d EXCEPT ![field] = val, !.sets = @ \cup {field}] ELSE d

\* the auth client gets a session (the sign-in page) or loses it (expiry)
SessionChanges(s) ==
    /\ s \in {u.id : u \in users} \cup {NULL}
    /\ s # dash.session
    /\ dash' = Ran([dash EXCEPT !.session = s], "session", <<>>)
    /\ UNCHANGED Database

\* .limit(10)
TimetableLimit == 10

AuthChangeRedirectsBoth(event, session) == event = "SIGNED_OUT" /\ session = NULL
\* if (event === 'SIGNED_OUT' || !session)
AuthChangeRedirects(event, session) == event = "SIGNED_OUT" \/ session = NULL

\* the effect: getUser() runs up to its first await, then the listener is
\* registered
Mount ==
    /\ ~dash.mounted /\ dash.pc = "idle"
    /\ dash' = Ran([dash EXCEPT !.mounted = TRUE, !.subscribed = TRUE,
                                !.pc = "getSession"], "mount", <<>>)
    /\ UNCHANGED Database

\* await supabase.auth.getSession() returns; without a session getUser
\* navigates to /auth and returns, with one it sets user and queries profiles
GetSessionReturns ==
    /\ dash.pc = "getSession"
    /\ LET session == dash.session
       IN IF session = NULL
          THEN dash' = [Ran(dash, "getSession", <<"/auth">>) EXCEPT
                            !.pc = "returned", !.gotSession = NULL]
          ELSE dash' = [Ran(SetState(dash, "user", session), "getSession", <<>>) EXCEPT
                            !.pc = "profileQuery", !.gotSession = session,
                            !.queries = @ \cup {"profiles"}]
    /\ UNCHANGED Database

\* the answer to from('profiles').select('*').eq('user_id', id).single():
\* an error when the request fails or does not find exactly one row
ProfileQueryReturns(failed) ==
    /\ dash.pc = "profileQuery"
    /\ LET rows == {p \in profiles : ProfilesSelectUsing(dash.gotSession, p)
                                     /\ p.user_id = dash.gotSession}
           error == failed \/ Cardinality(rows) # 1
           d1 == IF error THEN [dash EXCEPT !.toast = "Failed to load profile"]
                 ELSE SetState(dash, "profile", (CHOOSE p \in rows : TRUE).id)
       IN dash' = [Ran(d1, "profileQuery", <<>>) EXCEPT
                       !.pc = "timetableQuery", !.queries = @ \cup {"timetable"}]
    /\ UNCHANGED Database

\* the answer to from('timetable').select(...).limit(10), then setLoading(false)
TimetableQueryReturns(failed) ==
    /\ dash.pc = "timetableQuery"
    /\ \E data \in SUBSET Ids(timetable) :
          /\ Cardinality(data) = IF Cardinality(timetable) < TimetableLimit
                                 THEN Cardinality(timetable) ELSE TimetableLimit
          /\ LET d1 == IF failed THEN dash ELSE SetState(dash, "timetable", data)
                 d2 == SetState(d1, "loading", FALSE)
             IN dash' = [Ran(d2, "timetableQuery", <<>>) EXCEPT !.pc = "finished"]
    /\ UNCHANGED Database

AuthEvents == {"SIGNED_IN", "SIGNED_OUT", "TOKEN_REFRESHED"}

\* the auth client calls the registered listener with (event, session)
AuthStateChange(event, session) ==
    /\ dash.subscribed
    /\ dash' = [Ran(dash, "authStateChange",
                    IF AuthChangeRedirects(event, session) THEN <<"/auth">> ELSE <<>>)
                EXCEPT !.event = event, !.cbSession = session]
    /\ UNCHANGED Database

\* the effect's cleanup: subscription.unsubscribe()
Unmount ==
    /\ dash.mounted
    /\ dash' = Ran([dash EXCEPT !.mounted = FALSE, !.subscribed = FALSE], "unmount", <<>>)
    /\ UNCHANGED Database

\* handleSignOut up to await supabase.auth.signOut()
HandleSignOut ==
    /\ dash.mounted /\ dash.so = "idle" /\ dash.pc = "finished"
    /\ dash' = Ran([dash EXCEPT !.so = "signOut"], "handleSignOut", <<>>)
    /\ UNCHANGED Database

\* signOut() returns: an error toast, or a success toast and navigate('/')
SignOutReturns(error) ==
    /\ dash.so = "signOut"
    /\ dash' = IF error
               THEN [Ran([dash EXCEPT !.toast = "Error signing out"], "signOut", <<>>)
                        EXCEPT !.so = "idle"]
               ELSE [Ran([dash EXCEPT !.toast = "Signed out successfully",
                                      !.session = NULL], "signOut", <<"/">>)
                        EXCEPT !.so = "idle"]
    /\ UNCHANGED Database

-----------------------------------------------------------------------------
(* The database once the migration has run *)

\* auth.users may hold an identity from before the migration: it has no profile
Init ==
    /\ users \in {{}, {[id |-> "u1", email |-> "a@x", name |-> NULL]}}
    /\ signedUp = {}
    /\ profiles = {}
    /\ classrooms = SeedClassrooms
    /\ courses = SeedCourses
    /\ timetable = {}
    /\ feedback = {}
    /\ now = 0
    /\ last = Req("none", "none", Anon, "ok", NULL, 0, {})
    /\ dash = DashInit

-----------------------------------------------------------------------------
(* Identities and their profiles *)

ProfileSets ==
    {[col |-> "role", val |-> r] : r \in user_role}
        \cup {[col |-> "name", val |-> n] : n \in ProfileNames}
        \cup {[col |-> "user_id", val |-> u] : u \in Identities}

NextProfiles ==
    \/ \E u \in Identities, e \in SignupEmails, n \in SignupNames : CreateIdentity(u, e, n)
    \/ \E u \in Identities : DeleteIdentity(u)
    \/ \E a \in Actors : ProfileSelect(a)
    \/ \E a \in Actors, u \in Identities, n \in ProfileNames, r \in user_role :
           ProfileInsert(a, u, n, r, DefaultInt)
    \/ \E a \in Actors, p \in profiles, s \in ProfileSets : ProfileUpdate(a, p, s.col, s.val)
    \/ \E a \in Actors, p \in profiles : ProfileDelete(a, p)

SpecProfiles == Init /\ [][NextProfiles]_vars

-----------------------------------------------------------------------------
(* Roles and the writes they permit on classrooms, courses and timetable *)

\* the rows of a table that a client inserted: the seeded rows are left as they are
Inserted(rows, seed) == {r \in rows : r.id \notin Ids(seed)}

Times == {8, 9}

NextAccess ==
    \/ \E u \in Identities : CreateIdentity(u, "a@x", NULL)
    \/ \E a \in Actors, p \in profiles, r \in user_role : ProfileUpdate(a, p, "role", r)
    \/ \E a \in Actors : ClassroomSelect(a)
    \/ \E a \in Actors : ClassroomInsert(a, "Room Z", 10, DefaultInt)
    \/ \E a \in Actors, r \in Inserted(classrooms, SeedClassrooms) : ClassroomUpdate(a, r, "capacity", 60)
    \/ \E a \in Actors, r \in Inserted(classrooms, SeedClassrooms) : ClassroomDelete(a, r)
    \/ \E a \in Actors : CourseSelect(a)
    \/ \E a \in Actors : CourseInsert(a, "CS999", DefaultInt, DefaultInt)
    \/ \E a \in Actors, r \in Inserted(courses, SeedCourses) : CourseUpdate(a, r, "credits", 5)
    \/ \E a \in Actors, r \in Inserted(courses, SeedCourses) : CourseDelete(a, r)
    \/ \E a \in Actors : TimetableSelect(a)
    \/ \E a \in Actors, p \in profiles, s \in Times, e \in Times :
           TimetableInsert(a, 2, p.id, 2, "Monday", s, e, DefaultInt)
    \/ \E a \in Actors, t \in timetable, c \in {"start_time", "end_time"},
          v \in Times : TimetableUpdate(a, t, c, v)
    \/ \E a \in Actors, t \in timetable : TimetableDelete(a, t)

Spec == Init /\ [][NextAccess]_vars

-----------------------------------------------------------------------------
(* Feedback and who sees it *)

NextFeedback ==
    \/ \E u \in Identities : CreateIdentity(u, "a@x", NULL)
    \/ \E a \in Actors, p \in profiles, r \in user_role : ProfileUpdate(a, p, "role", r)
    \/ \E u \in Identities : DeleteIdentity(u)
    \/ \E a \in Actors : FeedbackSelect(a)
    \/ \E a \in Actors, u \in Identities : FeedbackInsert(a, u, "m1", DEFAULT, DefaultInt)
    \/ \E a \in Actors, f \in feedback : FeedbackUpdate(a, f, "message", "m2")
    \/ \E a \in Actors, f \in feedback : FeedbackDelete(a, f)
    \/ Tick

SpecFeedback == Init /\ [][NextFeedback]_vars

-----------------------------------------------------------------------------
(* Modification times *)

\* the updated_at a client may name in an INSERT or in the SET of an UPDATE:
\* none, or a time later than the clock ever shows
ClientStamps == {DefaultInt, MaxClock + 1}

NextTime ==
    \/ CreateIdentity("u1", "a@x", NULL)
    \/ \E ts \in ClientStamps : ProfileInsert("u1", "u1", "Kim", "admin", ts)
    \/ \E p \in profiles : ProfileUpdate("u1", p, "role", "admin")
    \/ \E p \in profiles : ProfileUpdate("u1", p, "updated_at", MaxClock + 1)
    \/ \E ts \in ClientStamps : ClassroomInsert("u1", "Room Z", 10, ts)
    \/ \E r \in Inserted(classrooms, SeedClassrooms) :
           ClassroomUpdate("u1", r, "capacity", 60)
    \/ \E ts \in ClientStamps : CourseInsert("u1", "CS999", DefaultInt, ts)
    \/ \E r \in Inserted(courses, SeedCourses) : CourseUpdate("u1", r, "credits", 5)
    \/ \E p \in profiles, ts \in ClientStamps :
           TimetableInsert("u1", 2, p.id, 2, "Monday", 8, 9, ts)
    \/ \E t \in timetable : TimetableUpdate("u1", t, "day_of_week", "Friday")
    \/ \E ts \in ClientStamps : FeedbackInsert("u1", "u1", "m1", DEFAULT, ts)
    \/ \E f \in feedback : FeedbackUpdate("u1", f, "message", "m2")
    \/ Tick

SpecTime == Init /\ [][NextTime]_vars

-----------------------------------------------------------------------------
(* Foreign keys and cascades *)

\* ids a timetable row may name: a row that exists at first, and none
RefIds == {1, 9}

NextCascade ==
    \/ \E u \in Identities : CreateIdentity(u, "a@x", NULL)
    \/ \E a \in Identities, p \in profiles : ProfileUpdate(a, p, "role", "admin")
    \/ \E a \in Identities, p \in profiles : ProfileDelete(a, p)
    \/ \E u \in Identities : DeleteIdentity(u)
    \/ \E a \in Identities, c \in RefIds, f \in RefIds, r \in RefIds :
           TimetableInsert(a, c, f, r, "Monday", 8, 9, DefaultInt)
    \/ \E a \in Identities, t \in timetable, v \in {2, 9} : TimetableUpdate(a, t, "room_id", v)
    \/ \E a \in Identities, r \in {x \in courses : x.id \in {1, 2}} : CourseDelete(a, r)
    \/ \E a \in Identities, r \in {x \in classrooms : x.id \in {1, 2}} : ClassroomDelete(a, r)
    \/ \E a \in Identities : FeedbackInsert(a, a, "m1", DEFAULT, DefaultInt)

SpecCascade == Init /\ [][NextCascade]_vars

-----------------------------------------------------------------------------
(* Classroom and course constraints *)

\* values a request may carry: a fresh one and one a seed row already has
RoomNames == {"Room Z", "Room A101"}
CourseCodes == {"CS999", "CS101"}
Capacities == {NullInt, 0, 10}
Credits == {DefaultInt, NullInt, 0, 4}

\* the rows a request may address: the first seed row and the inserted ones
Addressed(rows, seed) == {r \in rows : r.id = 1} \cup Inserted(rows, seed)

NextCatalog ==
    \/ \E u \in Identities : CreateIdentity(u, "a@x", NULL)
    \/ \E a \in Identities, p \in profiles : ProfileUpdate(a, p, "role", "admin")
    \/ \E a \in Identities, n \in RoomNames, c \in Capacities :
           ClassroomInsert(a, n, c, DefaultInt)
    \/ \E a \in Identities, r \in Addressed(classrooms, SeedClassrooms),
          c \in Capacities : ClassroomUpdate(a, r, "capacity", c)
    \/ \E a \in Identities, r \in Addressed(classrooms, SeedClassrooms),
          n \in RoomNames : ClassroomUpdate(a, r, "room_name", n)
    \/ \E a \in Identities, n \in CourseCodes, c \in Credits :
           CourseInsert(a, n, c, DefaultInt)
    \/ \E a \in Identities, r \in Addressed(courses, SeedCourses),
          c \in {NullInt, 4} : CourseUpdate(a, r, "credits", c)
    \/ \E a \in Identities, r \in Addressed(courses, SeedCourses),
          n \in CourseCodes : CourseUpdate(a, r, "course_code", n)

SpecCatalog == Init /\ [][NextCatalog]_vars

-----------------------------------------------------------------------------
(* Feedback status *)

\* status values of requests: omitted, NULL, a listed one and an unlisted one
StatusInputs == {DEFAULT, NULL, "reviewed", "archived"}

NextStatus ==
    \/ \E u \in Identities : CreateIdentity(u, "a@x", NULL)
    \/ \E u \in Identities : DeleteIdentity(u)
    \/ \E a \in Actors, u \in Identities, st \in StatusInputs :
           FeedbackInsert(a, u, "m1", st, DefaultInt)
    \/ \E a \in Actors, f \in feedback, st \in StatusInputs \ {DEFAULT} :
           FeedbackUpdate(a, f, "status", st)
    \/ \E a \in Actors : FeedbackSelect(a)

SpecStatus == Init /\ [][NextStatus]_vars

-----------------------------------------------------------------------------
(* The dashboard *)

NextDash ==
    \/ \E u \in Identities : CreateIdentity(u, "a@x", NULL)
    \/ \E s \in Identities \cup {NULL} : SessionChanges(s)
    \/ Mount
    \/ GetSessionReturns
    \/ \E failed \in BOOLEAN : ProfileQueryReturns(failed)
    \/ \E failed \in BOOLEAN : TimetableQueryReturns(failed)
    \/ \E e \in AuthEvents, s \in Identities \cup {NULL} : AuthStateChange(e, s)
    \/ Unmount
    \/ HandleSignOut
    \/ \E error \in BOOLEAN : SignOutReturns(error)

SpecDash == Init /\ [][NextDash]_vars

-----------------------------------------------------------------------------
(* Properties *)

Writes == {"insert", "update", "delete"}
CatalogTables == {"classrooms", "courses", "timetable"}

HasRole(u, roles) == \E p \in profiles : p.user_id = u /\ p.role \in roles

\* C1: an identity whose profile the signup trigger created never gets a write
\* on classrooms, courses or timetable accepted.  (Every profile change of such
\* an identity is its own statement: no other requester passes the profiles
\* policies for its row.)
C1_SignedUpIdentityNeverWrites ==
    (last.table \in CatalogTables /\ last.op \in Writes /\ last.result = "ok")
        => last.actor \notin signedUp

\* C2: a write on classrooms or courses passes the policies exactly when the
\* requester owns a profile with role admin, a write on timetable exactly when
\* it owns a profile with role admin or faculty, and a select on any of the
\* three tables succeeds and returns every row.
C2_WritesFollowRole ==
    /\ (last.table \in {"classrooms", "courses"} /\ last.op \in Writes)
          => (last.result # "rls" <=> HasRole(last.actor, {"admin"}))
    /\ (last.table = "timetable" /\ last.op \in Writes)
          => (last.result # "rls" <=> HasRole(last.actor, {"admin", "faculty"}))
    /\ (last.table = "classrooms" /\ last.op = "select")
          => (last.result = "ok" /\ last.rows = Ids(classrooms))
    /\ (last.table = "courses" /\ last.op = "select")
          => (last.result = "ok" /\ last.rows = Ids(courses))
    /\ (last.table = "timetable" /\ last.op = "select")
          => (last.result = "ok" /\ last.rows = Ids(timetable))

\* C2 witness: a faculty identity's update of a classroom is turned down by the policy
C2_Witness ==
    /\ last.table = "classrooms" /\ last.op = "update" /\ last.result = "rls"
    /\ HasRole(last.actor, {"faculty"})

\* C3: every timetable entry ends after it starts, and an insert or update
\* whose row would not is rejected and leaves the table as it was.
C3_ValidTimeRange ==
    [][/\ \A t \in timetable' : t.end_time > t.start_time
       /\ (last'.table = "timetable" /\ last'.op = "insert") =>
              \A a \in {last'.actor}, p \in profiles, s \in Times, e \in Times :
                  (e <= s /\ TimetableInsert(a, 2, p.id, 2, "Monday", s, e, DefaultInt))
                      => (timetable' = timetable /\ last'.result # "ok")
       /\ (last'.table = "timetable" /\ last'.op = "update") =>
              \A a \in {last'.actor}, t \in timetable, v \in Times :
                  /\ (v <= t.start_time /\ TimetableUpdate(a, t, "end_time", v))
                         => (timetable' = timetable /\ last'.result # "ok")
                  /\ (t.end_time <= v /\ TimetableUpdate(a, t, "start_time", v))
                         => (timetable' = timetable /\ last'.result # "ok")]_vars

\* C3 witness: an admin's update of an existing entry is rejected by the check constraint
C3_Witness ==
    /\ last.table = "timetable" /\ last.op = "update" /\ last.result = "constraint"
    /\ HasRole(last.actor, {"admin"})
    /\ \E t \in timetable : t.id = last.id

ProfilesOf(u, rows) == {p \in rows : p.user_id = u}

\* C4: after every statement each existing identity that was created with the
\* signup trigger installed has exactly one profile, and an insert of a profile
\* for an identity that already has one is rejected and changes nothing.
C4_OneProfilePerIdentity ==
    [][/\ \A u \in signedUp' : Cardinality(ProfilesOf(u, profiles')) = 1
       /\ (/\ last'.table = "profiles"
           /\ last'.op = "insert"
           /\ ProfilesOf(last'.uid, profiles) # {})
              => (last'.result # "ok" /\ profiles' = profiles)]_vars

\* C4 witness: an identity that signed up asks for a second profile of its own
\* and the unique constraint turns it down
C4_Witness ==
    /\ last.table = "profiles" /\ last.op = "insert" /\ last.result = "constraint"
    /\ last.actor = last.uid
    /\ last.uid \in signedUp
    /\ Cardinality(ProfilesOf(last.uid, profiles)) = 1

\* C5: an insert into auth.users adds exactly one profile: its user_id is the
\* new identity, its role student, its email the identity's email, its name the
\* metadata name when there is one and the email otherwise; the other profiles
\* stay as they are.
C5_SignupCreatesProfile ==
    [][\A x \in users' \ users :
          \E row \in profiles' \ profiles :
              /\ profiles' = profiles \cup {row}
              /\ row.id \notin Ids(profiles)
              /\ row.user_id = x.id
              /\ row.role = "student"
              /\ row.email = x.email
              /\ row.name = (IF x.name # NULL THEN x.name ELSE x.email)]_vars

\* C5 witness: two identities have signed up, one with a metadata name and one
\* without, and each has its profile
C5_Witness ==
    /\ last.table = "auth.users" /\ last.op = "insert" /\ last.result = "ok"
    /\ \E x \in users, y \in users :
          /\ x.name = "Lee" /\ y.name = NULL
          /\ \E p \in profiles : p.user_id = x.id /\ p.name = "Lee"
          /\ \E p \in profiles : p.user_id = y.id /\ p.name = y.email

\* C6: when the profile insert of the signup trigger fails (here: the identity
\* has no email, so profiles.email or profiles.name would be NULL), the insert
\* into auth.users is undone: auth.users and profiles are as before.
C6_FailedTriggerRollsBack ==
    [][\A u \in Identities, e \in SignupEmails, n \in SignupNames :
          (CreateIdentity(u, e, n) /\ e = NULL)
              => (/\ users' = users
                  /\ profiles' = profiles
                  /\ u \notin {x.id : x \in users'}
                  /\ ProfilesOf(u, profiles') = {}
                  /\ last'.result # "ok")]_vars

\* C6 witness: a signup was turned down and left neither identity nor profile
C6_Witness ==
    /\ last.table = "auth.users" /\ last.op = "insert" /\ last.result = "constraint"
    /\ last.uid \notin {x.id : x \in users}
    /\ ProfilesOf(last.uid, profiles) = {}

\* C7: a select on feedback returns a row exactly when the requester owns it or
\* owns a profile with role admin.
C7_FeedbackVisibility ==
    (last.table = "feedback" /\ last.op = "select")
        => \A f \in feedback :
               f.id \in last.rows
                   <=> (f.user_id = last.actor \/ HasRole(last.actor, {"admin"}))

\* C7 witness: a faculty identity selects and a row owned by someone else is not returned
C7_Witness ==
    /\ last.table = "feedback" /\ last.op = "select"
    /\ HasRole(last.actor, {"faculty"})
    /\ \E f \in feedback : f.user_id # last.actor /\ f.id \notin last.rows

\* C8: after the owner's update of a feedback row's message the row carries the
\* new message and updated_at = NOW(), and no other identity without the admin
\* role sees the row.
C8_OwnerUpdatesFeedback ==
    (last.table = "feedback" /\ last.op = "update" /\ last.actor = last.uid)
        => \E f \in feedback :
               /\ f.id = last.id
               /\ f.message = "m2"
               /\ f.updated_at = now
               /\ \A u \in Identities \ {f.user_id} :
                      HasRole(u, {"admin"}) \/ f \notin FeedbackVisible(u)

\* C9: a feedback row enters the table only by an insert whose requester is the
\* row's user_id, an insert for another identity is rejected and changes
\* nothing, and no statement changes the user_id of a row.
C9_FeedbackOwnerIsInserter ==
    [][/\ \A f \in feedback' \ feedback :
              /\ last'.table = "feedback" /\ last'.op = "insert"
              /\ f.user_id = last'.actor
       /\ (last'.table = "feedback" /\ last'.op = "insert" /\ last'.uid # last'.actor)
              => (last'.result # "ok" /\ feedback' = feedback)
       /\ \A f \in feedback, g \in feedback' : f.id = g.id => f.user_id = g.user_id]_vars

\* C9 witness: an admin's insert of a feedback row owned by another identity is rejected
C9_Witness ==
    /\ last.table = "feedback" /\ last.op = "insert" /\ last.result = "rls"
    /\ HasRole(last.actor, {"admin"})
    /\ last.uid # last.actor
    /\ last.uid \in {x.id : x \in users}

\* C10: a statement on profiles adds, changes or removes only rows whose user_id
\* is the requester, before and after the statement; an update that would hand
\* the requester's row to another identity is rejected; a select returns every row.
C10_ProfilesOwnerOnly ==
    [][last'.table = "profiles" =>
          /\ \A p \in (profiles' \ profiles) \cup (profiles \ profiles') :
                 p.user_id = last'.actor
          /\ \A p \in profiles, q \in profiles' : p.id = q.id => p.user_id = q.user_id
          /\ (last'.op \in {"insert", "update"} /\ last'.uid # last'.actor)
                 => last'.result # "ok"
          /\ last'.op = "select" => (last'.result = "ok" /\ last'.rows = Ids(profiles))]_vars

\* C10 witness: an admin's update of another identity's profile is turned down
C10_Witness ==
    /\ last.table = "profiles" /\ last.op = "update" /\ last.result = "rls"
    /\ HasRole(last.actor, {"admin"})
    /\ last.uid # last.actor
    /\ ProfilesOf(last.uid, profiles) # {}

\* the rows of a table before and after the statement, paired by id
Updated(table, before, after) ==
    IF last'.table = table /\ last'.op = "update" /\ last'.result = "ok"
    THEN {<<r, q>> \in before \X after : r.id = last'.id /\ q.id = last'.id}
    ELSE {}

\* C11: a successful update of a row of any of the five tables leaves the row
\* with updated_at = NOW(), which is no earlier than the row's previous
\* updated_at and no earlier than the start of the transaction.
C11_UpdateRefreshesUpdatedAt ==
    [][\A x \in Updated("profiles", profiles, profiles')
              \cup Updated("classrooms", classrooms, classrooms')
              \cup Updated("courses", courses, courses')
              \cup Updated("timetable", timetable, timetable')
              \cup Updated("feedback", feedback, feedback') :
          /\ x[2].updated_at = now'
          /\ x[2].updated_at >= x[1].updated_at
          /\ x[2].updated_at >= now]_vars

\* every timetable row references an existing course, profile and classroom
TimetableReferencesExist ==
    \A t \in timetable : /\ t.course_id \in Ids(courses)
                         /\ t.faculty_id \in Ids(profiles)
                         /\ t.room_id \in Ids(classrooms)

\* a successful delete removes the row, the timetable rows referencing it, and
\* (for an identity) its profile and feedback; every other row stays as it was
CascadeStep ==
    /\ (last'.table = "courses" /\ last'.op = "delete" /\ last'.result = "ok") =>
           /\ courses' = {c \in courses : c.id # last'.id}
           /\ timetable' = {t \in timetable : t.course_id # last'.id}
           /\ UNCHANGED <<users, profiles, classrooms, feedback>>
    /\ (last'.table = "classrooms" /\ last'.op = "delete" /\ last'.result = "ok") =>
           /\ classrooms' = {c \in classrooms : c.id # last'.id}
           /\ timetable' = {t \in timetable : t.room_id # last'.id}
           /\ UNCHANGED <<users, profiles, courses, feedback>>
    /\ (last'.table = "profiles" /\ last'.op = "delete" /\ last'.result = "ok") =>
           /\ profiles' = {p \in profiles : p.id # last'.id}
           /\ timetable' = {t \in timetable : t.faculty_id # last'.id}
           /\ UNCHANGED <<users, classrooms, courses, feedback>>
    /\ (last'.table = "auth.users" /\ last'.op = "delete" /\ last'.result = "ok") =>
           /\ users' = {u \in users : u.id # last'.uid}
           /\ profiles' = {p \in profiles : p.user_id # last'.uid}
           /\ timetable' = {t \in timetable :
                               \A p \in profiles : p.id = t.faculty_id => p.user_id # last'.uid}
           /\ feedback' = {f \in feedback : f.user_id # last'.uid}
           /\ UNCHANGED <<classrooms, courses>>

\* C12: every timetable row always references an existing course, profile and
\* classroom; deleting a course, profile or classroom deletes exactly the
\* timetable rows referencing it, and deleting an identity deletes its profile,
\* the timetable rows of that profile and its feedback, and nothing else.
C12_CascadeKeepsReferences ==
    []TimetableReferencesExist /\ [][CascadeStep]_vars

\* an identity was just deleted while the other identity's profile, timetable
\* row and feedback are all still there
C12_Witness ==
    /\ last.table = "auth.users" /\ last.op = "delete"
    /\ profiles # {} /\ timetable # {} /\ feedback # {}
    /\ Cardinality(users) = 1

\* C13: every course row has credits > 0, a NULL credits included among the
\* values that must not be stored.
C13_CreditsPositive ==
    \A c \in courses : c.credits # NullInt /\ c.credits > 0

\* the tables a request can write
Tables == <<users, profiles, classrooms, courses, timetable, feedback>>

\* C14: every classroom row has capacity > 0, in the seeded state too, and an
\* admin's insert or update whose capacity is <= 0 or absent is rejected and
\* leaves classrooms as it was.
C14_CapacityPositive ==
    /\ [](\A c \in classrooms : c.capacity # NullInt /\ c.capacity > 0)
    /\ [][/\ (last'.table = "classrooms" /\ last'.op = "insert") =>
              \A a \in {last'.actor}, n \in RoomNames, c \in {NullInt, 0} :
                  (HasRole(a, {"admin"}) /\ ClassroomInsert(a, n, c, DefaultInt))
                      => (last'.result = "constraint" /\ classrooms' = classrooms)
          /\ (last'.table = "classrooms" /\ last'.op = "update") =>
              \A a \in {last'.actor}, r \in {x \in classrooms : x.id = last'.id},
                 c \in {NullInt, 0} :
                  (HasRole(a, {"admin"}) /\ ClassroomUpdate(a, r, "capacity", c))
                      => (last'.result = "constraint" /\ classrooms' = classrooms)]_vars

\* an admin's update of a seed classroom was rejected by NOT NULL or the check
\* (no rename can collide: no other row has one of the names a request carries)
C14_Witness ==
    /\ last.table = "classrooms" /\ last.op = "update" /\ last.result = "constraint"
    /\ last.id = 1
    /\ HasRole(last.actor, {"admin"})
    /\ \E c \in classrooms : c.id = 1 /\ c.room_name = "Room A101" /\ c.capacity = 50
    /\ \A c \in classrooms : c.room_name # "Room Z"

\* C15: no two classrooms share a room_name and no two courses a course_code;
\* an insert or a rename that would create a duplicate is rejected and every
\* table stays exactly as it was.
C15_UniqueNames ==
    /\ [](/\ \A c, d \in classrooms : c.room_name = d.room_name => c = d
          /\ \A c, d \in courses : c.course_code = d.course_code => c = d)
    /\ [][/\ (last'.table = "classrooms" /\ last'.op = "insert") =>
              \A a \in {last'.actor}, n \in {c.room_name : c \in classrooms} :
                  (HasRole(a, {"admin"}) /\ ClassroomInsert(a, n, 10, DefaultInt))
                      => (last'.result = "constraint" /\ Tables' = Tables)
          /\ (last'.table = "classrooms" /\ last'.op = "update") =>
              \A a \in {last'.actor}, r \in {x \in classrooms : x.id = last'.id},
                 o \in classrooms :
                  LET n == o.room_name IN
                  (o # r /\ HasRole(a, {"admin"}) /\ ClassroomUpdate(a, r, "room_name", n))
                      => (last'.result = "constraint" /\ Tables' = Tables)
          /\ (last'.table = "courses" /\ last'.op = "insert") =>
              \A a \in {last'.actor}, n \in {c.course_code : c \in courses} :
                  (HasRole(a, {"admin"}) /\ CourseInsert(a, n, 4, DefaultInt))
                      => (last'.result = "constraint" /\ Tables' = Tables)
          /\ (last'.table = "courses" /\ last'.op = "update") =>
              \A a \in {last'.actor}, r \in {x \in courses : x.id = last'.id},
                 o \in courses :
                  LET n == o.course_code IN
                  (o # r /\ HasRole(a, {"admin"}) /\ CourseUpdate(a, r, "course_code", n))
                      => (last'.result = "constraint" /\ Tables' = Tables)]_vars

\* an admin's rename of an inserted course to the code of a seed course was
\* rejected (the only course update the constraints reject is a duplicate code)
C15_Witness ==
    /\ last.table = "courses" /\ last.op = "update" /\ last.result = "constraint"
    /\ HasRole(last.actor, {"admin"})
    /\ \E c \in Inserted(courses, SeedCourses) :
           c.id = last.id /\ c.course_code = "CS999" /\ c.credits = 4

\* C16: every feedback row's status is pending, reviewed or resolved, never
\* absent or anything else.
C16_StatusListed ==
    \A f \in feedback : f.status # NULL /\ f.status \in FeedbackStatuses

\* C17: each classroom, course or timetable write is decided by the profiles
\* table as it is when the request arrives: whatever the roles were before,
\* the write passes the policy exactly when the requester's profile has the
\* required role in the state the request is made in, so the first write
\* after a role change already follows the new role.
C17_RoleReadPerRequest ==
    [][/\ (last'.table \in {"classrooms", "courses"} /\ last'.op \in Writes)
             => (last'.result # "rls" <=> HasRole(last'.actor, {"admin"}))
       /\ (last'.table = "timetable" /\ last'.op \in Writes)
             => (last'.result # "rls" <=> HasRole(last'.actor, {"admin", "faculty"}))
       /\ (/\ last.table = "profiles" /\ last.op = "update" /\ last.result = "ok"
           /\ last'.table \in CatalogTables /\ last'.op \in Writes
           /\ last'.actor = last.uid
           /\ \E p \in profiles : p.id = last.id /\ p.role = "student")
             => last'.result = "rls"]_vars

\* the only profile once had role admin (it inserted a course), is a student
\* now, and its write on courses has just been turned down
C17_Witness ==
    /\ last.table = "courses" /\ last.op \in Writes /\ last.result = "rls"
    /\ Cardinality(profiles) = 1
    /\ HasRole(last.actor, {"student"})
    /\ Inserted(courses, SeedCourses) # {}

\* C18: when getSession on mount finds no session, getUser navigates to /auth
\* and returns: neither query is issued and no state is set, then or later;
\* every call of the auth listener with event SIGNED_OUT or without a session
\* navigates to /auth; the listener is called only while subscribed, and
\* unmounting unsubscribes it.
C18_NoSessionRedirects ==
    /\ [](dash.pc = "returned" =>
             /\ dash.queries = {} /\ dash.sets = {}
             /\ dash.user = NULL /\ dash.profile = 0 /\ dash.timetable = {})
    /\ [](dash.subscribed <=> dash.mounted)
    /\ [][dash' # dash =>
             /\ (dash'.step = "getSession" /\ dash.session = NULL) =>
                    /\ dash'.navs = <<"/auth">> /\ dash'.location = "/auth"
                    /\ dash'.pc = "returned"
             /\ (dash'.step = "authStateChange"
                    /\ (dash'.event = "SIGNED_OUT" \/ dash'.cbSession = NULL)) =>
                    /\ dash'.navs = <<"/auth">> /\ dash'.location = "/auth"
             /\ dash'.step = "authStateChange" => dash.subscribed
             /\ dash'.step = "unmount" => ~dash'.subscribed]_vars

\* getUser found no session on mount and returned, and the listener, still
\* subscribed, has just been called with a refreshed token but no session
C18_Witness ==
    /\ dash.pc = "returned" /\ dash.mounted /\ dash.subscribed
    /\ dash.step = "authStateChange"
    /\ dash.event = "TOKEN_REFRESHED" /\ dash.cbSession = NULL
    /\ dash.navs = <<"/auth">>

====
